---- MODULE Spec2Model ----
(***************************************************************************)
(* Model of pyro.ops.jit.CompiledFunction (src/pyro/ops/jit.py) and of     *)
(* pyro.infer.TraceMeanField_ELBO (src/pyro/infer/trace_mean_field_elbo.py)*)
(*                                                                         *)
(* Spec      : calls to one CompiledFunction instance, with the global     *)
(*             parameter store and external optimisation steps.            *)
(* ElboSpec  : one call of TraceMeanField_ELBO.loss, site by site.         *)
(***************************************************************************)
EXTENDS Integers, Sequences, FiniteSets, TLC

\* ------------------------------------------------------------------------
\* Bounds
\* ------------------------------------------------------------------------
\* number of calls made to the CompiledFunction instance
MaxCalls == 4

\* ------------------------------------------------------------------------
\* CompiledFunction: state
\* ------------------------------------------------------------------------
VARIABLES
    compiled,       \* self.compiled : len(args) -> artifact
    param_names,    \* self._param_names (None is modelled as << >>)
    registry,       \* the global parameter store: name -> unconstrained value
    backendCalls,   \* how often torch.jit.trace was invoked, per argc
    calledCounts,   \* the argument counts called so far
    ncalls,         \* number of calls made
    last,           \* record of the most recent call
    snap            \* record of the first call that returned on the compiled path

jitVars == <<compiled, param_names, registry, backendCalls, calledCounts,
             ncalls, last, snap>>

VARIABLES
    validation,     \* is_validation_enabled()
    num_particles,  \* self.num_particles
    particle,       \* number of particles accumulated so far in loss
    model_trace,    \* the model trace of the current particle
    guide_trace,    \* the guide trace of the current particle
    pc,             \* position in loss / _differentiable_loss_particle
    idx,            \* position of the running loop in its trace
    elbo_particle,  \* the running ELBO of _differentiable_loss_particle
    ret_particle,   \* the pair _differentiable_loss_particle returned
    elbo,           \* the accumulator of loss (a fraction)
    loss_ret,       \* the value loss returned (a fraction)
    err,            \* the exception that ended the call
    warned,         \* warnings.warn was called by the mean-field check
    obsOnly,        \* so far every particle had observed model sites only and
                    \* no guide sample site
    obsTotal,       \* while obsOnly: sum of log_prob_sum over the observed sites
                    \* of all particles
    lossSum         \* sum of the scalar losses returned for the particles

elboVars == <<validation, num_particles, particle, model_trace, guide_trace, pc,
              idx, elbo_particle, ret_particle, elbo, loss_ret, err, warned,
              obsOnly, obsTotal, lossSum>>

\* parameter names the wrapped function may touch
ParamNames == {"a", "b"}

\* the sets of names one run of the wrapped function may register
Touched == (SUBSET ParamNames) \ {{}}

\* the names the post-call parameter capture may record in one call
Captured == {{}} \cup {{n} : n \in ParamNames}

\* values of unconstrained parameter tensors (later values are larger)
ParamVals == {0, 1}

\* positional-argument counts used by the callers
Argcs == {2, 3}

\* positional argument tuples of the calls
ArgTuples == {<<0, 0>>, <<1, 0>>, <<0, 0, 0>>}

\* keyword arguments of a call (abstract identities)
Kwargs == {"k0", "k1"}

\* list(set(names)): one fixed order of a set of names
RECURSIVE SetToList(_)
SetToList(S) ==
    IF S = {} THEN << >>
    ELSE LET x == CHOOSE y \in S : \A z \in S : y = z \/ y \in {"a"} \/ z \notin {"a"}
         IN  <<x>> \o SetToList(S \ {x})

\* the set of elements of a sequence
Range(s) == {s[i] : i \in 1..Len(s)}

\* the initial value the wrapped function gives a new parameter
InitVal == CHOOSE v \in ParamVals : \A w \in ParamVals : v <= w

\* pyro.param(name, init) for every name the function touches: a name not yet
\* in the store is registered with the initial value the function gives it
Register(reg, names) ==
    [n \in (DOMAIN reg) \cup names |-> IF n \in DOMAIN reg THEN reg[n] ELSE InitVal]

\* tuple(pyro.param(name).unconstrained() for name in self._param_names)
Unconstrained(reg, names) == [i \in 1..Len(names) |-> reg[names[i]]]

\* variant of IsFirstTime that takes every call for the first one
IsFirstTime_Always(c, argc) == TRUE

\* "if argc not in self.compiled"
IsFirstTime(c, argc) == argc \notin DOMAIN c

\* the artifact torch.jit.trace returns for the closure `compiled`: the closure
\* captured kwargs and reads self._param_names while it is traced
Artifact(argc, kwargs, names) == [argc |-> argc, kwargs |-> kwargs, names |-> names]

\* a traced artifact has a fixed positional signature
ArityOk(art, inputs) == Len(inputs) = Len(art.names) + art.argc

\* the value the opaque artifact returns on these inputs
Apply(art, inputs) == [art |-> art, inp |-> inputs]

NoCall == [path |-> "none", args |-> << >>, kwargs |-> "k0", reg |-> << >>,
           names |-> << >>, inputs |-> << >>,
           captured |-> {}, outcome |-> "none", ret |-> << >>]

NoSnap == [path |-> "none", args |-> << >>, kwargs |-> "k0", reg |-> << >>,
           inputs |-> << >>, ret |-> << >>]

JitInit ==
    /\ compiled = << >>
    /\ param_names = << >>
    /\ registry = << >>
    /\ backendCalls = [n \in Argcs |-> 0]
    /\ calledCounts = {}
    /\ ncalls = 0
    /\ last = NoCall
    /\ snap = NoSnap

\* __call__, first time for this argc: parameter capture, compilation, then the
\* invocation of the new artifact under the post-call parameter capture
CallFirst ==
    \E args \in ArgTuples, kwargs \in Kwargs, touched \in Touched,
       captured \in Captured :
        LET argc == Len(args)
            names == SetToList(touched)
            reg1 == Register(registry, touched)
            inputs == Unconstrained(reg1, names) \o args
            art == Artifact(argc, kwargs, names)
            raises == ~(captured \subseteq Range(names))
        IN  /\ ncalls < MaxCalls
            /\ IsFirstTime(compiled, argc)
            /\ param_names' = names
            /\ compiled' = [n \in DOMAIN compiled \cup {argc} |->
                               IF n = argc THEN art ELSE compiled[n]]
            /\ backendCalls' = [backendCalls EXCEPT ![argc] = @ + 1]
            /\ registry' = Register(reg1, captured)
            /\ calledCounts' = calledCounts \cup {argc}
            /\ ncalls' = ncalls + 1
            /\ last' = [path |-> "first", args |-> args, kwargs |-> kwargs,
                        reg |-> registry, names |-> names, inputs |-> inputs, captured |-> captured,
                        outcome |-> IF raises THEN "raise_new_param" ELSE "return",
                        ret |-> IF raises THEN << >> ELSE <<Apply(art, inputs)>>]
            /\ UNCHANGED snap
            /\ UNCHANGED elboVars

\* __call__ with an argc that is already compiled
CallCompiled ==
    \E args \in ArgTuples, kwargs \in Kwargs, captured \in Captured :
        LET argc == Len(args)
            inputs == Unconstrained(registry, param_names) \o args
            art == compiled[argc]
            arity == ArityOk(art, inputs)
            raises == arity /\ ~(captured \subseteq Range(param_names))
            ret == IF arity /\ ~raises THEN <<Apply(art, inputs)>> ELSE << >>
            rec == [path |-> "compiled", args |-> args, kwargs |-> kwargs,
                    reg |-> registry, names |-> param_names, inputs |-> inputs,
                    captured |-> IF arity THEN captured ELSE {},
                    outcome |-> IF ~arity THEN "raise_signature"
                                ELSE IF raises THEN "raise_new_param" ELSE "return",
                    ret |-> ret]
        IN  /\ ncalls < MaxCalls
            /\ ~IsFirstTime(compiled, argc)
            /\ registry' = IF arity THEN Register(registry, captured) ELSE registry
            /\ calledCounts' = calledCounts \cup {argc}
            /\ ncalls' = ncalls + 1
            /\ last' = rec
            /\ snap' = IF snap.path = "none" /\ ret # << >>
                       THEN [path |-> "compiled", args |-> args, kwargs |-> kwargs,
                             reg |-> registry, inputs |-> inputs, ret |-> ret]
                       ELSE snap
            /\ UNCHANGED <<compiled, param_names, backendCalls>>
            /\ UNCHANGED elboVars

\* an external optimisation step moves a registered parameter to a later value
OptimStep ==
    \E n \in DOMAIN registry, v \in ParamVals :
        /\ registry[n] < v
        /\ registry' = [registry EXCEPT ![n] = v]
        /\ UNCHANGED <<compiled, param_names, backendCalls, calledCounts,
                       ncalls, last, snap>>
        /\ UNCHANGED elboVars

\* ------------------------------------------------------------------------
\* TraceMeanField_ELBO: traces
\* ------------------------------------------------------------------------
\* number of particles of one ELBO estimate (self.num_particles)
MaxParticles == 2

SiteNames == {"x", "z"}

\* distributions: family, reparameterisation flag, batch shape
Normal(b) == [family |-> "Normal", has_rsample |-> TRUE, batch_shape |-> b]
Gamma(b) == [family |-> "Gamma", has_rsample |-> TRUE, batch_shape |-> b]
Categorical(b) == [family |-> "Categorical", has_rsample |-> FALSE, batch_shape |-> b]

\* a site of a model trace
MSite(name, type, obs, lps, fn) ==
    [name |-> name, type |-> type, is_observed |-> obs, log_prob_sum |-> lps, fn |-> fn]

\* a site of a guide trace; score_parts holds whether the score-function term
\* and the entropy term are identically zero, and the entropy term's elements;
\* mask << >> stands for None
GSite(name, type, fn, sfz, entz, scale, mask, aux) ==
    [name |-> name, type |-> type, fn |-> fn,
     score_parts |-> [sf_zero |-> sfz, entropy_zero |-> entz,
                      entropy_term |-> [i \in 1..fn.batch_shape |-> IF entz THEN 0 ELSE i]],
     scale |-> scale, mask |-> mask, is_auxiliary |-> aux]

ModelMenu(name) ==
    IF name = "x"
    THEN {MSite(name, "param", FALSE, 0, Normal(1)),
          MSite(name, "sample", TRUE, 2, Normal(1)),
          MSite(name, "sample", FALSE, 1, Normal(1)),
          MSite(name, "sample", FALSE, 1, Normal(2)),
          MSite(name, "sample", FALSE, 1, Gamma(1))}
    ELSE {MSite(name, "sample", TRUE, -1, Normal(1)),
          MSite(name, "sample", FALSE, -1, Normal(1))}

GuideMenu(name) ==
    IF name = "x"
    THEN {GSite(name, "param", Normal(1), TRUE, FALSE, 1, << >>, FALSE)}
         \cup {GSite(name, "sample", Normal(1), TRUE, FALSE, sc, << >>, FALSE) : sc \in {1, 2}}
         \cup {GSite(name, "sample", Normal(1), TRUE, FALSE, 1, <<0>>, FALSE),
               GSite(name, "sample", Normal(2), TRUE, FALSE, 2, <<1, 0>>, FALSE),
               GSite(name, "sample", Normal(1), TRUE, FALSE, 1, << >>, TRUE)}
         \cup {GSite(name, "sample", Normal(1), FALSE, FALSE, 1, << >>, aux) : aux \in BOOLEAN}
         \cup {GSite(name, "sample", Normal(1), TRUE, TRUE, 1, << >>, TRUE),
               GSite(name, "sample", Categorical(1), TRUE, FALSE, 1, << >>, TRUE),
               GSite(name, "sample", Categorical(1), FALSE, TRUE, 1, << >>, TRUE)}
    ELSE {GSite(name, "sample", Normal(1), TRUE, FALSE, 1, << >>, FALSE),
          GSite(name, "sample", Normal(1), TRUE, FALSE, 1, << >>, TRUE),
          GSite(name, "sample", Categorical(1), FALSE, TRUE, 1, << >>, TRUE)}

\* the orders in which a program may visit its sites (names are unique in a trace)
ModelOrders == {<< >>, <<"x">>, <<"z">>, <<"x", "z">>}
GuideOrders == {<< >>, <<"x">>, <<"z">>, <<"x", "z">>, <<"z", "x">>}

ModelTraces ==
    UNION {{[i \in 1..Len(o) |-> f[i]] :
              f \in [1..Len(o) -> UNION {ModelMenu(n) : n \in SiteNames}]} : o \in ModelOrders}

GuideTraces ==
    UNION {{[i \in 1..Len(o) |-> f[i]] :
              f \in [1..Len(o) -> UNION {GuideMenu(n) : n \in SiteNames}]} : o \in GuideOrders}

\* trace.nodes.keys()
Names(tr) == {tr[i].name : i \in 1..Len(tr)}

\* trace.nodes[name]
Node(tr, name) == tr[CHOOSE i \in 1..Len(tr) : tr[i].name = name]

\* a trace keeps the order of its program
Ordered(tr, orders) == [i \in 1..Len(tr) |-> tr[i].name] \in orders

\* the pairs Trace_ELBO._get_trace can return: the model is replayed against the
\* guide trace, and replaying a latent model sample site against a guide site of
\* another type fails before a pair is returned
TracePairs ==
    {p \in {mt \in ModelTraces : Ordered(mt, ModelOrders)}
           \X {gt \in GuideTraces : Ordered(gt, GuideOrders)} :
        \A i \in 1..Len(p[1]) :
            (p[1][i].type = "sample" /\ ~p[1][i].is_observed /\ p[1][i].name \in Names(p[2]))
                => Node(p[2], p[1][i].name).type = "sample"}

\* ------------------------------------------------------------------------
\* TraceMeanField_ELBO: helpers
\* ------------------------------------------------------------------------
RECURSIVE Sum(_)
\* tensor.sum()
Sum(t) == IF t = << >> THEN 0 ELSE t[1] + Sum(Tail(t))

\* [name for name, site in tr.nodes.items() if site["type"] == "sample" and name in other.nodes]
RECURSIVE SharedSampleSites(_, _)
SharedSampleSites(tr, other) ==
    IF tr = << >> THEN << >>
    ELSE (IF tr[1].type = "sample" /\ tr[1].name \in Names(other)
          THEN <<tr[1].name>> ELSE << >>) \o SharedSampleSites(Tail(tr), other)

\* _check_mean_field_requirement: "assert" when the assertion fails, "warn" when
\* the orders differ, "ok" otherwise
CheckMeanFieldRequirement(mt, gt) ==
    LET model_sites == SharedSampleSites(mt, gt)
        guide_sites == SharedSampleSites(gt, mt)
    IN  IF Range(model_sites) # Range(guide_sites) THEN "assert"
        ELSE IF model_sites # guide_sites THEN "warn"
        ELSE "ok"

\* variant of FullyRep that does not look at the entropy term
FullyRep_IgnoreEntropy(g) == g.fn.has_rsample /\ g.score_parts.sf_zero

\* fully_rep of _check_fully_reparametrized
FullyRep(g) ==
    /\ g.fn.has_rsample
    /\ ~g.score_parts.entropy_zero
    /\ g.score_parts.sf_zero

\* torch.distributions.kl_divergence(q, p): registered for Normal against Normal,
\* NotImplementedError (ok = FALSE) otherwise; the result has the broadcast shape
kl_divergence(q, p) ==
    IF q.family = "Normal" /\ p.family = "Normal"
    THEN [ok |-> TRUE,
          t |-> [i \in 1..(IF q.batch_shape > p.batch_shape THEN q.batch_shape
                            ELSE p.batch_shape) |-> i]]
    ELSE [ok |-> FALSE, t |-> << >>]

\* scale_and_mask(tensor, scale, mask)
scale_and_mask(t, scale, mask) ==
    IF mask = << >> THEN [i \in 1..Len(t) |-> t[i] * scale]
    ELSE [i \in 1..Len(t) |-> t[i] * scale * mask[IF i <= Len(mask) THEN i ELSE 1]]

\* variant of Fallback that leaves out the model's log_prob_sum
Fallback_NoLogProb(acc, lps, entropy_term) == acc - Sum(entropy_term)

\* the fall back on sampling, in the except branch
Fallback(acc, lps, entropy_term) == acc + lps - Sum(entropy_term)

\* variant of Auxiliary with the opposite sign
Auxiliary_Added(acc, entropy_term) == acc + Sum(entropy_term)

\* the contribution of an auxiliary guide site; the sum of an identically zero
\* entropy term is taken as 0
Auxiliary(acc, entropy_term) == acc - Sum(entropy_term)

\* one iteration of the loop over the model trace
ModelSiteStep(site, gt, val, acc) ==
    IF site.type # "sample" THEN [err |-> "none", elbo |-> acc]
    ELSE IF site.is_observed THEN [err |-> "none", elbo |-> acc + site.log_prob_sum]
    ELSE IF site.name \notin Names(gt) THEN [err |-> "guide_key_error", elbo |-> acc]
    ELSE LET guide_site == Node(gt, site.name)
             kl == kl_divergence(guide_site.fn, site.fn)
             kl_qp == scale_and_mask(kl.t, guide_site.scale, guide_site.mask)
         IN  IF val /\ ~FullyRep(guide_site)
             THEN [err |-> "not_reparametrized", elbo |-> acc]
             ELSE IF ~kl.ok
             THEN [err |-> "none",
                   elbo |-> Fallback(acc, site.log_prob_sum,
                                     guide_site.score_parts.entropy_term)]
             ELSE IF Len(kl_qp) # guide_site.fn.batch_shape
             THEN [err |-> "kl_shape_assert", elbo |-> acc]
             ELSE [err |-> "none", elbo |-> acc - Sum(kl_qp)]

\* one iteration of the loop over the guide trace
GuideSiteStep(site, mt, val, acc) ==
    IF ~(site.type = "sample" /\ site.name \notin Names(mt))
    THEN [err |-> "none", elbo |-> acc]
    ELSE IF ~site.is_auxiliary THEN [err |-> "not_auxiliary_assert", elbo |-> acc]
    ELSE IF val /\ ~FullyRep(site) THEN [err |-> "not_reparametrized", elbo |-> acc]
    ELSE [err |-> "none", elbo |-> Auxiliary(acc, site.score_parts.entropy_term)]

\* the loop over the model trace, from site i on
RECURSIVE ModelLoop(_, _, _, _, _)
ModelLoop(mt, i, gt, val, acc) ==
    IF i > Len(mt) THEN [err |-> "none", elbo |-> acc]
    ELSE LET r == ModelSiteStep(mt[i], gt, val, acc)
         IN  IF r.err # "none" THEN r ELSE ModelLoop(mt, i + 1, gt, val, r.elbo)

\* the loop over the guide trace, from site i on
RECURSIVE GuideLoop(_, _, _, _, _)
GuideLoop(gt, i, mt, val, acc) ==
    IF i > Len(gt) THEN [err |-> "none", elbo |-> acc]
    ELSE LET r == GuideSiteStep(gt[i], mt, val, acc)
         IN  IF r.err # "none" THEN r ELSE GuideLoop(gt, i + 1, mt, val, r.elbo)

\* _differentiable_loss_particle(model_trace, guide_trace) as a function
DifferentiableLossParticle(mt, gt, val) ==
    LET m == ModelLoop(mt, 1, gt, val, 0)
        g == IF m.err # "none" THEN m ELSE GuideLoop(gt, 1, mt, val, m.elbo)
    IN  [err |-> g.err, ret |-> <<0 - g.elbo, 0 - g.elbo>>]

\* fractions
Frac(n, d) == [n |-> n, d |-> d]
FracAdd(a, b) == [n |-> a.n * b.d + b.n * a.d, d |-> a.d * b.d]
FracNeg(a) == [n |-> 0 - a.n, d |-> a.d]
FracEq(a, b) == a.n * b.d = b.n * a.d

NoFrac == Frac(0, 0)

\* ------------------------------------------------------------------------
\* TraceMeanField_ELBO: loss
\* ------------------------------------------------------------------------
ElboIdle ==
    /\ particle = 0
    /\ model_trace = << >>
    /\ guide_trace = << >>
    /\ pc = "get_trace"
    /\ idx = 1
    /\ elbo_particle = 0
    /\ ret_particle = << >>
    /\ elbo = Frac(0, 1)
    /\ loss_ret = NoFrac
    /\ err = "none"
    /\ warned = FALSE
    /\ obsOnly = TRUE
    /\ obsTotal = 0
    /\ lossSum = 0

ElboInit ==
    /\ validation \in BOOLEAN
    /\ num_particles \in 1..MaxParticles
    /\ ElboIdle

\* every model sample site is observed and the guide has no sample site
ObservedOnly(mt, gt) ==
    /\ \A i \in 1..Len(mt) : mt[i].type = "sample" => mt[i].is_observed
    /\ \A i \in 1..Len(gt) : gt[i].type # "sample"

RECURSIVE ObservedLogProb(_)
ObservedLogProb(mt) ==
    IF mt = << >> THEN 0
    ELSE (IF mt[1].type = "sample" /\ mt[1].is_observed THEN mt[1].log_prob_sum ELSE 0)
         + ObservedLogProb(Tail(mt))

\* _get_trace for the next particle of the loop in loss
GetTrace ==
    \E p \in TracePairs :
        LET check == IF validation THEN CheckMeanFieldRequirement(p[1], p[2]) ELSE "ok"
        IN  /\ pc = "get_trace"
            /\ particle < num_particles
            /\ model_trace' = p[1]
            /\ guide_trace' = p[2]
            /\ warned' = (warned \/ check = "warn")
            /\ err' = IF check = "assert" THEN "mean_field_assert" ELSE "none"
            /\ pc' = IF check = "assert" THEN "raised" ELSE "model_sites"
            /\ idx' = 1
            /\ elbo_particle' = 0
            /\ obsOnly' = (obsOnly /\ ObservedOnly(p[1], p[2]))
            /\ obsTotal' = IF obsOnly /\ ObservedOnly(p[1], p[2])
                            THEN obsTotal + ObservedLogProb(p[1]) ELSE 0
            /\ UNCHANGED <<validation, num_particles, particle, ret_particle, elbo,
                           loss_ret, lossSum>>
            /\ UNCHANGED jitVars
    /\ UNCHANGED jitVars

\* the body of "for name, model_site in model_trace.nodes.items()"
ModelSite ==
    /\ pc = "model_sites"
    /\ idx <= Len(model_trace)
    /\ LET r == ModelSiteStep(model_trace[idx], guide_trace, validation, elbo_particle)
       IN  /\ err' = r.err
           /\ elbo_particle' = r.elbo
           /\ pc' = IF r.err = "none" THEN pc ELSE "raised"
           /\ idx' = IF r.err = "none" THEN idx + 1 ELSE idx
    /\ UNCHANGED <<validation, num_particles, particle, model_trace, guide_trace,
                   ret_particle, elbo, loss_ret, warned, obsOnly, obsTotal, lossSum>>
    /\ UNCHANGED jitVars

\* the loop over the model trace ends, the loop over the guide trace starts
ModelSitesDone ==
    /\ pc = "model_sites"
    /\ idx > Len(model_trace)
    /\ pc' = "guide_sites"
    /\ idx' = 1
    /\ UNCHANGED <<validation, num_particles, particle, model_trace, guide_trace,
                   elbo_particle, ret_particle, elbo, loss_ret, err, warned,
                   obsOnly, obsTotal, lossSum>>
    /\ UNCHANGED jitVars

\* the body of "for name, guide_site in guide_trace.nodes.items()"
GuideSite ==
    /\ pc = "guide_sites"
    /\ idx <= Len(guide_trace)
    /\ LET r == GuideSiteStep(guide_trace[idx], model_trace, validation, elbo_particle)
       IN  /\ err' = r.err
           /\ elbo_particle' = r.elbo
           /\ pc' = IF r.err = "none" THEN pc ELSE "raised"
           /\ idx' = IF r.err = "none" THEN idx + 1 ELSE idx
    /\ UNCHANGED <<validation, num_particles, particle, model_trace, guide_trace,
                   ret_particle, elbo, loss_ret, warned, obsOnly, obsTotal, lossSum>>
    /\ UNCHANGED jitVars

\* return -torch_item(elbo_particle), -elbo_particle
ReturnParticle ==
    /\ pc = "guide_sites"
    /\ idx > Len(guide_trace)
    /\ ret_particle' = <<0 - elbo_particle, 0 - elbo_particle>>
    /\ elbo_particle' = 0
    /\ pc' = "accumulate"
    /\ UNCHANGED <<validation, num_particles, particle, model_trace, guide_trace,
                   idx, elbo, loss_ret, err, warned, obsOnly, obsTotal, lossSum>>
    /\ UNCHANGED jitVars

\* elbo_particle, _ = ...; elbo += elbo_particle / self.num_particles
\* (the loop variables are dead until the next particle rebinds them)
Accumulate ==
    /\ pc = "accumulate"
    /\ elbo' = FracAdd(elbo, Frac(ret_particle[1], num_particles))
    /\ lossSum' = lossSum + ret_particle[1]
    /\ particle' = particle + 1
    /\ ret_particle' = << >>
    /\ model_trace' = << >>
    /\ guide_trace' = << >>
    /\ idx' = 1
    /\ pc' = "get_trace"
    /\ UNCHANGED <<validation, num_particles, elbo_particle, loss_ret, err, warned,
                   obsOnly, obsTotal>>
    /\ UNCHANGED jitVars

\* loss = -elbo; return loss
ReturnLoss ==
    /\ pc = "get_trace"
    /\ particle = num_particles
    /\ loss_ret' = FracNeg(elbo)
    /\ pc' = "done"
    /\ UNCHANGED <<validation, num_particles, particle, model_trace, guide_trace,
                   idx, elbo_particle, ret_particle, elbo, err, warned, obsOnly,
                   obsTotal, lossSum>>
    /\ UNCHANGED jitVars

\* ------------------------------------------------------------------------
\* Specifications
\* ------------------------------------------------------------------------
vars == <<jitVars, elboVars>>

Init == JitInit /\ validation = TRUE /\ num_particles = 1 /\ ElboIdle

Next == CallFirst \/ CallCompiled \/ OptimStep

Spec == Init /\ [][Next]_vars

ElboNext ==
    GetTrace \/ ModelSite \/ ModelSitesDone \/ GuideSite \/ ReturnParticle
        \/ Accumulate \/ ReturnLoss

ElboSpecInit == JitInit /\ ElboInit

ElboSpec == ElboSpecInit /\ [][ElboNext]_vars

\* ------------------------------------------------------------------------
\* CompiledFunction: properties
\* ------------------------------------------------------------------------
\* the artifact cached for the argument count of the most recent call
LastArtifact == compiled[Len(last.args)]

\* the most recent call and the remembered one took the compiled path with the
\* same positional arguments and the same parameter values in the store
SameCallAgain ==
    /\ last.path = "compiled"
    /\ snap.path = "compiled"
    /\ last.args = snap.args
    /\ last.reg = snap.reg

\* C2: the compilation backend has been invoked exactly once for every argument
\* count that was called and never for another, the cache holds exactly one
\* entry per called count, and an entry, once cached, is never replaced by a
\* later call (with the same or with another count).
C2_CompileOncePerArgc ==
    /\ [](/\ \A n \in Argcs : backendCalls[n] = IF n \in calledCounts THEN 1 ELSE 0
          /\ DOMAIN compiled = calledCounts)
    /\ [][\A n \in DOMAIN compiled :
             n \in DOMAIN compiled' /\ compiled'[n] = compiled[n]]_vars

\* C2 witness: both counts are cached and a repeated call returned through the
\* cached artifact
C2_Witness ==
    /\ DOMAIN compiled = Argcs
    /\ last.path = "compiled"
    /\ last.outcome = "return"
    /\ ncalls >= 3

\* C3 (as stated): a call on the compiled path during which a parameter name
\* outside the set discovered when this argument count was compiled is
\* registered never returns a result.
C3_Original ==
    (/\ last.path = "compiled"
     /\ ~(last.captured \subseteq Range(LastArtifact.names)))
        => last.outcome # "return"

\* C4 (as stated): a call on the compiled path fetches, passes, hides and checks
\* exactly the parameter names discovered when its argument count was compiled.
C4_Original ==
    last.path = "compiled"
        => /\ last.names = LastArtifact.names
           /\ last.inputs = Unconstrained(last.reg, LastArtifact.names) \o last.args

\* C9 (as stated): two calls on the compiled path with the same argument count,
\* identical arguments and identical parameter values invoke the cached
\* artifact with the same input tuple and return the same result.
C9_Original ==
    SameCallAgain
        => /\ last.inputs = snap.inputs
           /\ last.outcome = "return" => last.ret = snap.ret

\* C10 (as stated): two calls on the compiled path that differ in their keyword
\* arguments only invoke the same cached artifact, compiled with the keyword
\* arguments of the compiling call, with the same inputs and return the same
\* result.
C10_Original ==
    (SameCallAgain /\ last.kwargs # snap.kwargs /\ last.outcome = "return")
        => /\ last.ret[1].art = snap.ret[1].art
           /\ last.ret[1].inp = snap.ret[1].inp
           /\ last.ret = snap.ret

\* ------------------------------------------------------------------------
\* TraceMeanField_ELBO: properties
\* ------------------------------------------------------------------------
\* a loop of _differentiable_loss_particle takes a step
Stepped == pc' # pc \/ idx' # idx

\* the next iteration of the model loop is at a latent site found in the guide
AtLatentSite ==
    /\ pc = "model_sites"
    /\ idx <= Len(model_trace)
    /\ model_trace[idx].type = "sample"
    /\ ~model_trace[idx].is_observed
    /\ model_trace[idx].name \in Names(guide_trace)

\* the next iteration of the guide loop is at a guide-only auxiliary site
AtAuxiliarySite ==
    /\ pc = "guide_sites"
    /\ idx <= Len(guide_trace)
    /\ guide_trace[idx].type = "sample"
    /\ guide_trace[idx].name \notin Names(model_trace)
    /\ guide_trace[idx].is_auxiliary

\* the guide site the next iteration looks at
PendingGuideSite ==
    IF pc = "model_sites" THEN Node(guide_trace, model_trace[idx].name)
    ELSE guide_trace[idx]

\* guide trace without its k-th site
WithoutSite(gt, k) == [i \in 1..(Len(gt) - 1) |-> IF i < k THEN gt[i] ELSE gt[i + 1]]

\* C1 (as stated): when every model sample site of every particle is observed
\* and no guide trace has a sample site, loss returns minus the total observed
\* log-density divided by num_particles, which is the average of the scalar
\* losses _differentiable_loss_particle returned.
C1_Original ==
    (pc = "done" /\ obsOnly)
        => /\ FracEq(loss_ret, Frac(0 - obsTotal, num_particles))
           /\ FracEq(loss_ret, Frac(lossSum, num_particles))

\* C5: with validation enabled, the iteration that reaches a latent site matched
\* in the guide, or a guide-only auxiliary site, whose guide site has
\* has_rsample false, or a score-function term that is not identically zero, or
\* an identically zero entropy term, raises and leaves the running ELBO and the
\* accumulator of loss as they were; with validation disabled that error is
\* never raised.
C5_NotReparametrizedIsFatal ==
    /\ [][(/\ validation
           /\ AtLatentSite \/ AtAuxiliarySite
           /\ \/ ~PendingGuideSite.fn.has_rsample
              \/ ~PendingGuideSite.score_parts.sf_zero
              \/ PendingGuideSite.score_parts.entropy_zero
           /\ Stepped)
            => /\ err' = "not_reparametrized"
               /\ pc' = "raised"
               /\ elbo_particle' = elbo_particle
               /\ elbo' = elbo]_vars
    /\ [](~validation => err # "not_reparametrized")

\* C5 witness: the check raised at a site reached with a running ELBO that
\* earlier sites had already changed
C5_Witness ==
    /\ validation
    /\ err = "not_reparametrized"
    /\ pc = "raised"
    /\ idx > 1
    /\ elbo_particle # 0

C7_AuxiliaryEntropy ==
    pc = "accumulate"
        => \A k \in 1..Len(guide_trace) :
              (/\ guide_trace[k].type = "sample"
               /\ guide_trace[k].name \notin Names(model_trace)
               /\ guide_trace[k].is_auxiliary)
                => LET r == DifferentiableLossParticle(model_trace,
                                                       WithoutSite(guide_trace, k), validation)
                       e == Sum(guide_trace[k].score_parts.entropy_term)
                   IN  /\ r.err = "none"
                       /\ ret_particle = <<r.ret[1] + e, r.ret[2] + e>>

\* C7 witness: a particle returned whose guide had an auxiliary site with a
\* non-zero entropy sum, after model sites had contributed
C7_Witness ==
    /\ pc = "accumulate"
    /\ \E k \in 1..Len(guide_trace) :
          /\ guide_trace[k].type = "sample"
          /\ guide_trace[k].name \notin Names(model_trace)
          /\ guide_trace[k].is_auxiliary
          /\ Sum(guide_trace[k].score_parts.entropy_term) # 0
    /\ \E i \in 1..Len(model_trace) : model_trace[i].type = "sample"

\* C8 (as stated): with validation enabled the mean-field check never raises,
\* whatever the pair of traces.
C8_Original == err # "mean_field_assert"

====
